---- MODULE Spec2Model ----
(***************************************************************************)
(* release-mirror: the release-synchronization engine                      *)
(* (github_mirror/mirror.py) over the transport core                       *)
(* (release_mirror/base_client.py).                                        *)
(*                                                                         *)
(* One repository root is modelled as a small file system: the entries of  *)
(* the root (tag directories, the `latest` path, the temporary link) and   *)
(* the asset files inside the tag directories.  A run of mirror_repository *)
(* is a sequence of steps (listing, one step per release, one step per     *)
(* asset, the two system calls of the `latest` update).                    *)
(***************************************************************************)
EXTENDS Integers, Sequences, FiniteSets, TLC

(***************************************************************************)
(* Bounds of the model.                                                    *)
(***************************************************************************)
MaxReleases == 2      \* releases in one listing
MaxRuns == 2          \* successive invocations against the same destination
MaxUrls == 2          \* entries of config.urls in a batch
MaxBatchReleases == 2 \* releases in one listing of a batch
MaxReset == 1         \* range of the clock and of the rate-limit reset time
JitterTicks == 4      \* clock ticks per second (resolution of the jitter)
MaxRequests == 2      \* requests one client issues (transport core alone)
MaxClock == 3         \* seconds that pass between the requests of a client
MaxRetried == 0       \* transient failures retried before a listing is answered
MaxLines == 2         \* lines of a manifest
MaxHost == 3          \* releases a host holds when its listing is paged
MaxPerPage == 2       \* per_page of a paged listing

(***************************************************************************)
(* Program constants.                                                      *)
(***************************************************************************)
MAX_RETRIES == 3

(***************************************************************************)
(* Names, digests and file contents.  A file name is a sequence of tokens  *)
(* (stem, extension); a hex digest is a token that has an upper-case and a *)
(* lower-case spelling.                                                    *)
(***************************************************************************)
None == ""

AppName == <<"app">>
SidecarName == <<"app", ".sha256">>
Names == {AppName, SidecarName}

Tags == {"v1", "v2", "latest"}

LowerHex == {"h1", "h2"}
UpperHex == {"H1", "H2"}

\* str.lower() on a hex digest
Lower(h) ==
    CASE h = "H1" -> "h1"
      [] h = "H2" -> "h2"
      [] OTHER -> h

\* re.match(r"^([a-fA-F0-9]{64})...") : the token is 64 hex characters
IsHex64(h) == h \in LowerHex \cup UpperHex

\* CHECKSUM_PATTERNS, matched case-insensitively at the end of the name
ChecksumSuffixes ==
    {"checksums.txt", "checksum.txt", "sha256sums.txt", "sha256sum.txt",
     "sha256sums", "sha256sum", ".sha256", ".sha256sum"}

is_checksum_file(name) ==
    /\ Len(name) > 0
    /\ name[Len(name)] \in ChecksumSuffixes

\* re.sub(r"\.sha256(sum)?$", "", sidecar_name)
StripSha256Suffix(name) ==
    IF Len(name) > 0 /\ name[Len(name)] \in {".sha256", ".sha256sum"}
    THEN SubSeq(name, 1, Len(name) - 1)
    ELSE name

\* re.sub(r"^[*./\\]+", "", filename) : leading path markers are dropped
PathMarkers == {"*", ".", "/", "./", "\\"}

RECURSIVE StripMarkers(_)
StripMarkers(name) ==
    IF Len(name) > 0 /\ name[1] \in PathMarkers
    THEN StripMarkers(Tail(name))
    ELSE name

(***************************************************************************)
(* A manifest line is [hash, name]: hash is the first token of the line    *)
(* and name the rest of it (the empty sequence when the line is one        *)
(* token).  A comment or blank line has hash "#".                          *)
(***************************************************************************)
Line(h, n) == [hash |-> h, name |-> n]

MapPut(m, k, v) == [x \in DOMAIN m \cup {k} |-> IF x = k THEN v ELSE m[x]]

\* dict.update
MapUpdate(m, p) ==
    [x \in DOMAIN m \cup DOMAIN p |-> IF x \in DOMAIN p THEN p[x] ELSE m[x]]

EmptyMap == [x \in {} |-> None]

RECURSIVE ParseLines(_, _, _)
ParseLines(lines, sidecar_name, checksums) ==
    IF lines = <<>> THEN checksums
    ELSE
        LET line == Head(lines)
            rest == Tail(lines)
        IN  IF line.hash = "#" THEN ParseLines(rest, sidecar_name, checksums)
            ELSE IF IsHex64(line.hash) /\ line.name # <<>>
            THEN ParseLines(rest, sidecar_name,
                            MapPut(checksums, StripMarkers(line.name), Lower(line.hash)))
            ELSE IF IsHex64(line.hash) /\ line.name = <<>> /\ sidecar_name # <<>>
            THEN LET target == StripSha256Suffix(sidecar_name)
                 IN  IF target # sidecar_name
                     THEN ParseLines(rest, sidecar_name,
                                     MapPut(checksums, target, Lower(line.hash)))
                     ELSE ParseLines(rest, sidecar_name, checksums)
            ELSE ParseLines(rest, sidecar_name, checksums)

parse_checksums(content, sidecar_name) == ParseLines(content, sidecar_name, EmptyMap)

(***************************************************************************)
(* Remote data.  A download URL names the bytes the host serves for it;    *)
(* Text gives the lines of a file read as text, Sha256 its digest.         *)
(***************************************************************************)
Absent == "absent"
Partial == "part"          \* a truncated file left by an interrupted stream

Contents == {"c1", "m1", "m2", Partial}

Remote(url) ==
    CASE url = "u1" -> "c1"
      [] url = "us1" -> "m1"
      [] url = "us2" -> "m2"

Text(c) ==
    CASE c = "m1" -> << Line("H1", <<>>) >>
      [] c = "m2" -> << Line("#", <<>>), Line("h2", <<"./", "app">>) >>
      [] OTHER -> <<>>

_compute_sha256(c) ==
    CASE c = "c1" -> "h1"
      [] c = "m1" -> "h3"
      [] c = "m2" -> "h4"
      [] OTHER -> "h0"

Asset(n, d, u) == [name |-> n, digest |-> d, download_url |-> u]

aPlain == Asset(AppName, None, "u1")         \* no API digest
aGood == Asset(AppName, "h1", "u1")          \* API digest of the served bytes
aBad == Asset(AppName, "h2", "u1")           \* API digest of other bytes
aSide == Asset(SidecarName, None, "us1")     \* sidecar holding the right digest
aSideBad == Asset(SidecarName, None, "us2")  \* manifest holding another digest
aSideSigned == Asset(SidecarName, "h3", "us2") \* manifest with an API digest of other bytes

Release(t, d, p, a) == [tag_name |-> t, draft |-> d, prerelease |-> p, assets |-> a]

ReleasePool ==
    { Release("v1", FALSE, FALSE, <<aSide, aPlain>>),
      Release("v1", FALSE, FALSE, <<aPlain, aSideBad>>),
      Release("v1", FALSE, TRUE, <<aBad>>),
      Release("v1", FALSE, TRUE, <<aSideSigned, aPlain>>),
      Release("v2", FALSE, FALSE, <<aGood>>),
      Release("v2", FALSE, TRUE, <<aSideBad, aGood>>),
      Release("v2", TRUE, FALSE, <<aPlain>>),
      Release("latest", FALSE, FALSE, <<aPlain>>) }

\* the releases of the repositories of a batch: one whose manifest is listed
\* after the asset it names, one with an API digest
BatchPool ==
    { Release("v1", FALSE, FALSE, <<aPlain, aSideBad>>),
      Release("v2", FALSE, FALSE, <<aGood>>) }

SeqsUpTo(S, n) == UNION { [1..k -> S] : k \in 0..n }

Listings == SeqsUpTo(ReleasePool, MaxReleases)

\* the listings a run may be given: those over BatchPool while a batch is
\* under way
ListingsOf(urls) ==
    IF urls = <<>> THEN Listings ELSE SeqsUpTo(BatchPool, MaxBatchReleases)

(***************************************************************************)
(* The repository root.  root maps the name of an entry of the root (a tag *)
(* or the temporary link) to what is there; files maps (directory, file    *)
(* name) to the content of the file.                                       *)
(***************************************************************************)
TempName == ".latest.tmp.pid"      \* f".latest.tmp.{os.getpid()}"
LatestName == "latest"
EntryNames == Tags \cup {TempName}

NoEntry == [kind |-> "none", target |-> None]
DirEntry == [kind |-> "dir", target |-> None]
FileEntry == [kind |-> "file", target |-> None]
LinkTo(t) == [kind |-> "link", target |-> t]

\* Path.is_symlink()
IsSymlink(f, n) == f.root[n].kind = "link"

\* Path.resolve() of an entry of the root: the directory it names, None when
\* it names no directory
Resolve(f, n) ==
    CASE f.root[n].kind = "dir" -> n
      [] f.root[n].kind = "link" ->
            IF f.root[n].target \in EntryNames /\ f.root[f.root[n].target].kind = "dir"
            THEN f.root[n].target
            ELSE None
      [] OTHER -> None

\* Path.exists() of an entry of the root (follows a symbolic link)
Exists(f, n) ==
    \/ f.root[n].kind \in {"dir", "file"}
    \/ f.root[n].kind = "link" /\ Resolve(f, n) # None

\* the content at dest_dir / name, Absent when there is no such file
FileAt(f, tag, name) ==
    IF Resolve(f, tag) = None THEN Absent ELSE f.files[<<Resolve(f, tag), name>>]

WriteFile(f, tag, name, c) ==
    [f EXCEPT !.files[<<Resolve(f, tag), name>>] = c]

EmptyRoot ==
    [root |-> [n \in EntryNames |-> NoEntry],
     files |-> [p \in Tags \X Names |-> Absent]]

(***************************************************************************)
(* MirrorResult                                                            *)
(***************************************************************************)
MirrorResult ==
    [downloaded |-> <<>>, skipped |-> <<>>, errors |-> <<>>, hash_mismatches |-> <<>>,
     api_requests |-> 0]

success(r) == r.errors = <<>> /\ r.hash_mismatches = <<>>

HashMismatchError(path, expected, actual) ==
    [path |-> path, expected |-> expected, actual |-> actual]

\* a message and what it is about
Log(m, about) == [msg |-> m, subject |-> about]

(***************************************************************************)
(* BaseClient.download_file: the retry loop over _download_once.  outs     *)
(* gives what each attempt meets: "ok", "transient" (a ConnectionError     *)
(* raised while the response is opened) or "stream" (the exception the     *)
(* HTTP library raises while the body is read, after the destination has   *)
(* been opened for writing; it is no ConnectionError).  The result is the  *)
(* status, the number of attempts made and the delays slept (in ticks).    *)
(***************************************************************************)
AttemptOutcomes == {"ok", "transient", "stream"}

Pow2(n) == IF n = 0 THEN 1 ELSE IF n = 1 THEN 2 ELSE 4

\* delay = (2**attempt) + random.uniform(0, 1), in ticks
BackoffDelay(attempt, jitter) == Pow2(attempt) * JitterTicks + jitter

\* if attempt < MAX_RETRIES - 1: time.sleep(delay)
SleepsAfter(attempt) == attempt < MAX_RETRIES - 1

\* except ConnectionError: the conditions download_file retries
DownloadCaught(out) == out = "transient"

RECURSIVE DownloadLoop(_, _, _, _)
DownloadLoop(outs, jit, attempt, delays) ==
    IF attempt >= MAX_RETRIES
    THEN [status |-> "ConnectionError", attempts |-> attempt, delays |-> delays]
    ELSE IF outs[attempt + 1] = "ok"
    THEN [status |-> "ok", attempts |-> attempt + 1, delays |-> delays]
    ELSE IF DownloadCaught(outs[attempt + 1])
    THEN DownloadLoop(outs, jit, attempt + 1,
                      IF SleepsAfter(attempt)
                      THEN Append(delays, BackoffDelay(attempt, jit[attempt + 1]))
                      ELSE delays)
    ELSE [status |-> "RequestException", attempts |-> attempt + 1, delays |-> delays]

download_file(outs, jit) == DownloadLoop(outs, jit, 0, <<>>)

RECURSIVE DestLoop(_, _, _, _)
\* the file at dest when download_file(url, dest) is left: _download_once
\* opens dest for writing once the response is open, the handler of
\* download_file unlinks it (lines 174-175)
DestLoop(outs, url, attempt, dest) ==
    IF attempt >= MAX_RETRIES THEN dest
    ELSE IF outs[attempt + 1] = "ok" THEN Remote(url)
    ELSE IF DownloadCaught(outs[attempt + 1]) THEN DestLoop(outs, url, attempt + 1, Absent)
    ELSE Partial

NoJitter == [i \in 1..MAX_RETRIES |-> 0]

(***************************************************************************)
(* BaseClient._request_with_retry: the retry loop over _request.  outs     *)
(* gives what each attempt meets: "ok" or the class of the exception       *)
(* _request raises.                                                        *)
(***************************************************************************)
RequestOutcomes ==
    {"ok", "ConnectionError", "FileNotFoundError", "PermissionError",
     "RateLimitError", "RuntimeError"}

\* RequestCaught as `except Exception`
RequestCaughtAll(out) == out # "ok"

\* except ConnectionError: the conditions _request_with_retry retries
RequestCaught(out) == out = "ConnectionError"

RECURSIVE RequestLoop(_, _, _, _)
RequestLoop(outs, jit, attempt, delays) ==
    IF attempt >= MAX_RETRIES
    THEN [status |-> "ConnectionError", attempts |-> attempt, delays |-> delays]
    ELSE IF outs[attempt + 1] = "ok"
    THEN [status |-> "ok", attempts |-> attempt + 1, delays |-> delays]
    ELSE IF RequestCaught(outs[attempt + 1])
    THEN RequestLoop(outs, jit, attempt + 1,
                     IF SleepsAfter(attempt)
                     THEN Append(delays, BackoffDelay(attempt, jit[attempt + 1]))
                     ELSE delays)
    ELSE [status |-> outs[attempt + 1], attempts |-> attempt + 1, delays |-> delays]

_request_with_retry(outs, jit) == RequestLoop(outs, jit, 0, <<>>)

(***************************************************************************)
(* BaseClient._check_rate_limit and _handle_error_response.  A response     *)
(* header is <<>> when the response does not carry it (or carries an empty  *)
(* value) and <<n>> when it carries the number n.                           *)
(***************************************************************************)
RATE_LIMIT_THRESHOLD == 10
RETRY_STATUS_CODES == {500, 502, 503, 504}

NoHeader == <<>>
Header(n) == <<n>>

Remainings == {NoHeader, Header(0), Header(9), Header(10), Header(60)}
Resets == {NoHeader} \cup { Header(t) : t \in 0..MaxReset }
StatusCodes == {200, 401, 403, 404, 418, 500, 502, 503, 504}

\* line 59: wait_seconds = max(0, reset_timestamp - int(time.time())) + 1
wait_seconds(reset_timestamp, now) ==
    (IF reset_timestamp - now > 0 THEN reset_timestamp - now ELSE 0) + 1

\* the seconds _check_rate_limit sleeps for a response received at time now
_check_rate_limit(remaining, reset_time, now) ==
    IF remaining = NoHeader THEN 0
    ELSE IF remaining[1] < RATE_LIMIT_THRESHOLD /\ reset_time # NoHeader
    THEN wait_seconds(reset_time[1], now)
    ELSE 0

\* the class of the exception raised for the response, "ok" when none is
_handle_error_response(status_code, remaining, reset_time) ==
    IF status_code = 403
    THEN IF remaining = Header(0) /\ reset_time # NoHeader
         THEN "RateLimitError"
         ELSE "PermissionError"
    ELSE IF status_code = 404 THEN "FileNotFoundError"
    ELSE IF status_code \in RETRY_STATUS_CODES THEN "ConnectionError"
    ELSE IF status_code # 200 THEN "RuntimeError"
    ELSE "ok"

\* line 72: RateLimitError(int(reset_time)); -1 when no RateLimitError is raised
RaisedResetTime(status_code, remaining, reset_time) ==
    IF status_code = 403 /\ remaining = Header(0) /\ reset_time # NoHeader
    THEN reset_time[1]
    ELSE -1

\* GitLabHandleErrorResponse without the override for 401
GitLabHandlesLikeBase(status_code, remaining, reset_time) ==
    _handle_error_response(status_code, remaining, reset_time)

\* GitLabClient._handle_error_response
GitLabHandleErrorResponse(status_code, remaining, reset_time) ==
    IF status_code = 401 THEN "PermissionError"
    ELSE _handle_error_response(status_code, remaining, reset_time)

\* self._handle_error_response(response) on the client of the platform
HandleErrorResponse(platform, status_code, remaining, reset_time) ==
    IF platform = "gitlab"
    THEN GitLabHandleErrorResponse(status_code, remaining, reset_time)
    ELSE _handle_error_response(status_code, remaining, reset_time)

\* BaseClient.__init__, with the clock and the headers of the last response,
\* its status (0 when none arrived), the method that read it and the reset
\* time of the RateLimitError raised for it
NoClient ==
    [request_count |-> 0, now |-> 0, issued_at |-> 0,
     before_remaining |-> NoHeader, before_reset |-> NoHeader,
     remaining |-> NoHeader, reset |-> NoHeader, waited |-> 0, last |-> None,
     platform |-> "github", status |-> 0, via |-> None, exc_reset |-> -1]

(***************************************************************************)
(* Repository.from_url.  An identifier is a sequence of tokens: a prefix   *)
(* ("gh:", "gl:", "https://"), a host, "/", ".git" and path segments.      *)
(***************************************************************************)
RECURSIVE RStrip(_, _)
\* str.rstrip("/")
RStrip(u, t) ==
    IF u # <<>> /\ u[Len(u)] = t THEN RStrip(SubSeq(u, 1, Len(u) - 1), t) ELSE u

RECURSIVE LStrip(_, _)
\* str.lstrip("/")
LStrip(u, t) == IF u # <<>> /\ u[1] = t THEN LStrip(Tail(u), t) ELSE u

RECURSIVE Split(_, _, _)
\* str.split("/"): the segments between the separators, cur being the
\* segment under construction
Split(u, t, cur) ==
    IF u = <<>> THEN <<cur>>
    ELSE IF Head(u) = t THEN <<cur>> \o Split(Tail(u), t, <<>>)
    ELSE Split(Tail(u), t, Append(cur, Head(u)))

ValueError(m) == [ok |-> FALSE, error |-> m]

\* StripGitSuffix as the identity
KeepGitSuffix(path) == path

\* line 137: re.sub(r"\.git$", "", path)
StripGitSuffix(path) ==
    IF path # <<>> /\ path[Len(path)] = ".git"
    THEN SubSeq(path, 1, Len(path) - 1)
    ELSE path

_parse_path(path, platform, base_url) ==
    LET stripped == StripGitSuffix(path)
        parts == Split(stripped, "/", <<>>)
    IN  IF Len(parts) < 2
        THEN ValueError("invalid repository path")
        ELSE [ok |-> TRUE, owner |-> parts[1], repo |-> parts[2],
              platform |-> platform, base_url |-> base_url]

GitHubHosts == {"github.com", "www.github.com"}

\* "gitlab" in host
ContainsGitlab(host) == host \in {"gitlab.com", "gitlab.example.com"}

\* str.lower() on the authority of a URL
LowerHost(netloc) == IF netloc = "GitHub.com" THEN "github.com" ELSE netloc

\* base_url: str | None = None; a base is the pair of scheme and authority
NoBase == <<>>

\* BaseUrl with no base for the host gitlab.com
BaseUrlSelfHosted(scheme, netloc) ==
    IF LowerHost(netloc) = "gitlab.com" THEN NoBase ELSE <<scheme, netloc>>

\* line 122: base = f"{parsed.scheme}://{parsed.netloc}"
BaseUrl(scheme, netloc) == <<scheme, netloc>>

from_url(raw) ==
    LET url == RStrip(raw, "/")
    IN  IF url # <<>> /\ url[1] = "gh:" THEN _parse_path(Tail(url), "github", NoBase)
        ELSE IF url # <<>> /\ url[1] = "gl:" THEN _parse_path(Tail(url), "gitlab", NoBase)
        ELSE IF url # <<>> /\ url[1] \in {"http://", "https://"}
        THEN LET netloc == IF Len(url) >= 2 THEN url[2] ELSE None
                 host == LowerHost(netloc)
                 path == SubSeq(url, 3, Len(url))
             IN  IF host \in GitHubHosts
                 THEN _parse_path(LStrip(path, "/"), "github", NoBase)
                 ELSE IF ContainsGitlab(host)
                 THEN _parse_path(LStrip(path, "/"), "gitlab", BaseUrl(url[1], netloc))
                 ELSE ValueError("unknown host")
        ELSE IF \E i \in 1..Len(url) : url[i] = "/"
        THEN _parse_path(url, "github", NoBase)
        ELSE ValueError("invalid repository url")

\* config.urls of the batches: identifiers of the one repository whose root is
\* modelled, and identifiers that name no repository
BatchUrls ==
    { <<"gh:", "a", "/", "b">>,
      <<"https://", "github.com", "/", "a", "/", "b", ".git", "/">>,
      <<"not-a-repo">>,
      <<"https://", "bitbucket.org", "/", "a", "/", "b">> }

(***************************************************************************)
(* State.                                                                  *)
(***************************************************************************)
VARIABLES
    fs,             \* the repository root on disk
    origin,         \* what the root held before the first run
    pc,             \* where the current invocation stands
    runs,           \* invocations started so far
    dry_run,        \* ReleaseMirror.dry_run
    listing,        \* the releases the host lists for the repository
    listed,         \* client.get_releases has returned the listing
    idx,            \* index of the release the loop is at
    queue,          \* assets of the current release still to handle
    hash_lookup,    \* filename -> digest parsed from the release's manifests
    latest_release, \* tag of the `latest` candidate, None when there is none
    result,         \* the MirrorResult of the current run
    issued,         \* the last _download_asset called client.download_file
    lastLog,        \* the last message given to log()
    exc,            \* the exception that ended the invocation, None otherwise
    rl,             \* the rate-limit wait: reset time, clock, seconds slept
    prev,           \* what the previous run left, for a rerun of the same listing
    pending,        \* config.urls still to process (mirror_all)
    total,          \* total_result of mirror_all
    retry,          \* one call of a retry loop of the transport core
    client,         \* the API client: request_count, its clock, the last response
    requests_before, \* client.request_count when mirror_repository was entered
    exit_code,      \* the exit status of main(), Running until it ends
    ident,          \* one call of Repository.from_url: the string and the result
    conv,           \* one asset of an API answer and a manifest: data and digests
    pager           \* one call of client.get_releases: the pages fetched so far

vars == <<fs, origin, pc, runs, dry_run, listing, listed, idx, queue, hash_lookup,
          latest_release, result, issued, lastLog, exc, rl, prev, pending,
          total, retry, client, requests_before, exit_code, ident, conv, pager>>

runVars == <<dry_run, listing, listed, idx, queue, hash_lookup, latest_release,
             result, issued, rl>>

loopVars == <<dry_run, listing, listed, idx, queue, hash_lookup, latest_release,
              issued, rl>>

NoWait == [reset |-> 0, now |-> 0, wait |-> 0]
NoPrev == [valid |-> FALSE, success |-> FALSE, latest |-> NoEntry]
NoResult == [status |-> None, attempts |-> 0, delays |-> <<>>]
NoRetry == [op |-> None, outs |-> <<>>, jit |-> <<>>, dest |-> Absent, res |-> NoResult]
Running == -1
NoIdent == [raw |-> <<>>, core |-> <<>>, res |-> None]
NoConv == [data |-> <<>>, content |-> <<>>, sidecar |-> <<>>, digest |-> None,
           lookup |-> EmptyMap, used |-> None]
NoPager == [host |-> <<>>, per_page |-> 1, fails_at |-> 0, error |-> None, call |-> 0,
            page |-> 1, releases |-> <<>>, asked |-> <<>>, status |-> None]

\* a root in which something other than a symbolic link occupies `latest`
OccupiedRoot == [EmptyRoot EXCEPT !.root[LatestName] = FileEntry]

InitRun ==
    /\ runs = 0
    /\ dry_run = FALSE
    /\ listing = <<>>
    /\ listed = FALSE
    /\ idx = 0
    /\ queue = <<>>
    /\ hash_lookup = EmptyMap
    /\ latest_release = None
    /\ result = MirrorResult
    /\ issued = FALSE
    /\ lastLog = Log(None, None)
    /\ exc = None
    /\ rl = NoWait
    /\ prev = NoPrev

Init ==
    /\ fs \in {EmptyRoot, OccupiedRoot}
    /\ origin = IF fs = EmptyRoot THEN "empty" ELSE "occupied"
    /\ pc = "idle"
    /\ InitRun
    /\ pending = <<>>
    /\ total = MirrorResult
    /\ retry = NoRetry
    /\ client = NoClient
    /\ requests_before = 0
    /\ exit_code = Running
    /\ ident = NoIdent
    /\ conv = NoConv
    /\ pager = NoPager

(***************************************************************************)
(* mirror_repository, lines 197-203: a new run.                            *)
(***************************************************************************)
BeginRun(d) ==
    /\ dry_run' = d
    /\ listed' = FALSE
    /\ idx' = 0
    /\ queue' = <<>>
    /\ hash_lookup' = EmptyMap
    /\ latest_release' = None
    /\ result' = MirrorResult
    /\ issued' = FALSE
    /\ rl' = NoWait
    /\ exc' = None
    /\ lastLog' = Log("mirroring", None)
    /\ pc' = "list"

\* main() with --repo: one invocation mirrors one repository
Start ==
    /\ pc \in {"idle", "done", "raised"}
    /\ runs < MaxRuns
    /\ \E d \in BOOLEAN : BeginRun(d)
    /\ prev' = IF pc = "done" /\ ~dry_run /\ listed
               THEN [valid |-> TRUE, success |-> success(result),
                     latest |-> fs.root[LatestName]]
               ELSE NoPrev
    /\ runs' = runs + 1
    /\ client' = NoClient
    /\ requests_before' = NoClient.request_count
    /\ UNCHANGED <<fs, origin, listing, pending, total, retry, exit_code, ident, conv, pager>>

(***************************************************************************)
(* mirror_repository, lines 205-230: the listing.  An outcome is "ok" or   *)
(* the class of the exception client.get_releases raises.                  *)
(***************************************************************************)
ListOutcomes ==
    {"ok", "RateLimitError", "FileNotFoundError", "ConnectionError",
     "PermissionError", "RuntimeError"}

\* the except clauses of the first listing, in order; None when none applies
FirstListingHandler(e) ==
    CASE e = "RateLimitError" -> "rate limited, waiting"
      [] e = "FileNotFoundError" -> "repository not found"
      [] e = "ConnectionError" -> "failed to fetch releases"
      [] e = "PermissionError" -> "access denied"
      [] OTHER -> None

\* except (ConnectionError, FileNotFoundError, PermissionError, RuntimeError)
RetryListingCaught(e) ==
    e \in {"ConnectionError", "FileNotFoundError", "PermissionError", "RuntimeError"}

\* wait_time = max(0, e.reset_time - int(time.time())) + 1
WaitTime(reset, now) == (IF reset - now > 0 THEN reset - now ELSE 0) + 1

\* the requests one call of client.get_releases issues: one page, asked for
\* again after every transient failure; MAX_RETRIES when the retries run out
ListRequests(out) ==
    IF out = "ConnectionError" THEN {MAX_RETRIES}
    ELSE { k + 1 : k \in { j \in 0..MaxRetried : j < MAX_RETRIES } }

\* self.request_count += 1, for every request of the call
Count(c, n) == [c EXCEPT !.request_count = @ + n]

Raise(e) ==
    /\ pc' = "raised"
    /\ exc' = e

\* releases = client.get_releases(repo): the host's listing is an input.  prev
\* is kept only for a rerun that is given the listing of the run before.
Listed(ls) ==
    /\ \E l \in ls :
          /\ listing' = l
          /\ prev' = IF prev.valid /\ l = listing THEN prev ELSE NoPrev
    /\ listed' = TRUE
    /\ idx' = 1
    /\ pc' = "release"
    /\ lastLog' = Log("found releases", None)
    /\ UNCHANGED <<result, exc>>

RecordError(m, about) ==
    result' = [result EXCEPT !.errors = Append(@, Log(m, about))]

\* lines 205-230: what follows the first call of client.get_releases, which
\* returns one of the listings ls or raises out
FirstListing(out, ls) ==
    CASE out = "ok" -> Listed(ls) /\ rl' = NoWait
      [] out = "RateLimitError" ->
            /\ \E reset \in 0..MaxReset, now \in 0..MaxReset :
                  rl' = [reset |-> reset, now |-> now,
                         wait |-> WaitTime(reset, now)]
            /\ pc' = "sleep"
            /\ lastLog' = Log(FirstListingHandler(out), None)
            /\ UNCHANGED <<result, exc, listed, idx, listing, prev>>
      [] OTHER ->
            /\ rl' = NoWait
            /\ UNCHANGED <<listed, idx, listing, prev>>
            /\ IF FirstListingHandler(out) # None
               THEN /\ RecordError(FirstListingHandler(out), out)
                    /\ lastLog' = Log(FirstListingHandler(out), None)
                    /\ pc' = "done"
                    /\ exc' = exc
               ELSE /\ Raise(out)
                    /\ UNCHANGED <<result, lastLog>>

\* lines 211-216: what follows the second call of client.get_releases
SecondListing(out, ls) ==
    /\ CASE out = "ok" -> Listed(ls)
          [] OTHER ->
                /\ UNCHANGED <<listed, idx, listing, prev>>
                /\ IF RetryListingCaught(out)
                   THEN /\ RecordError("failed after rate limit wait", out)
                        /\ lastLog' = Log("failed after rate limit wait", None)
                        /\ pc' = "done"
                        /\ exc' = exc
                   ELSE /\ Raise(out)
                        /\ UNCHANGED <<result, lastLog>>
    /\ rl' = NoWait

ListReleases ==
    /\ pc = "list"
    /\ \E out \in ListOutcomes :
       /\ \E n \in ListRequests(out) : client' = Count(client, n)
       /\ FirstListing(out, ListingsOf(pending))
    /\ UNCHANGED <<fs, origin, runs, dry_run, queue, hash_lookup, latest_release,
                   issued, pending, total, retry, requests_before, exit_code, ident, conv, pager>>

\* lines 210-216: time.sleep(wait_time), then the listing once more
RetryListing ==
    /\ pc = "sleep"
    /\ \E out \in ListOutcomes :
       /\ \E n \in ListRequests(out) : client' = Count(client, n)
       /\ SecondListing(out, ListingsOf(pending))
    /\ UNCHANGED <<fs, origin, runs, dry_run, queue, hash_lookup, latest_release,
                   issued, pending, total, retry, requests_before, exit_code, ident, conv, pager>>

(***************************************************************************)
(* _download_asset(asset, dest_dir, result, client, digest_override).      *)
(* status is what client.download_file does if it is called: "ok" or the   *)
(* class of the exception it raises.  The value is the file system, the    *)
(* result, the last log message, whether download_file was called and the  *)
(* exception that leaves _download_asset (None when it returns).           *)
(***************************************************************************)
DownloadStatuses ==
    { download_file(o, NoJitter).status : o \in [1..MAX_RETRIES -> AttemptOutcomes] }

\* digest = digest_override or asset.digest
BestDigest(asset, digest_override) ==
    IF digest_override # None THEN digest_override ELSE asset.digest

\* line 161 and line 186: if actual_hash != digest
Mismatch(content, digest) == digest # None /\ _compute_sha256(content) # digest

\* AfterDownload with the unlink moved out of the mismatch branch
AfterDownloadUnlinkAlways(f, res, asset, tag, digest) ==
    LET dest_path == <<tag, asset.name>>
        content == FileAt(f, tag, asset.name)
    IN  IF Mismatch(content, digest)
        THEN [fs |-> WriteFile(f, tag, asset.name, Absent),
              result |-> [res EXCEPT !.hash_mismatches =
                            Append(@, HashMismatchError(dest_path, digest,
                                                        _compute_sha256(content)))],
              log |-> Log("hash mismatch after download", dest_path),
              issued |-> TRUE, exc |-> None]
        ELSE [fs |-> WriteFile(f, tag, asset.name, Absent),
              result |-> [res EXCEPT !.downloaded = Append(@, dest_path)],
              log |-> Log("downloaded", dest_path),
              issued |-> TRUE, exc |-> None]

\* AfterDownload without the unlink of line 190
AfterDownloadKeepsFile(f, res, asset, tag, digest) ==
    LET dest_path == <<tag, asset.name>>
        content == FileAt(f, tag, asset.name)
    IN  IF Mismatch(content, digest)
        THEN [fs |-> f,
              result |-> [res EXCEPT !.hash_mismatches =
                            Append(@, HashMismatchError(dest_path, digest,
                                                        _compute_sha256(content)))],
              log |-> Log("hash mismatch after download", dest_path),
              issued |-> TRUE, exc |-> None]
        ELSE [fs |-> f,
              result |-> [res EXCEPT !.downloaded = Append(@, dest_path)],
              log |-> Log("downloaded", dest_path),
              issued |-> TRUE, exc |-> None]

\* lines 184-195: the file has been written
AfterDownload(f, res, asset, tag, digest) ==
    LET dest_path == <<tag, asset.name>>
        content == FileAt(f, tag, asset.name)
    IN  IF Mismatch(content, digest)
        THEN [fs |-> WriteFile(f, tag, asset.name, Absent),
              result |-> [res EXCEPT !.hash_mismatches =
                            Append(@, HashMismatchError(dest_path, digest,
                                                        _compute_sha256(content)))],
              log |-> Log("hash mismatch after download", dest_path),
              issued |-> TRUE, exc |-> None]
        ELSE [fs |-> f,
              result |-> [res EXCEPT !.downloaded = Append(@, dest_path)],
              log |-> Log("downloaded", dest_path),
              issued |-> TRUE, exc |-> None]

\* ExistingFile with the unlink of the post-download check copied into it
ExistingFileUnlinks(f, res, asset, tag, digest) ==
    LET dest_path == <<tag, asset.name>>
        content == FileAt(f, tag, asset.name)
    IN  IF Mismatch(content, digest)
        THEN [fs |-> WriteFile(f, tag, asset.name, Absent),
              result |-> [res EXCEPT !.hash_mismatches =
                            Append(@, HashMismatchError(dest_path, digest,
                                                        _compute_sha256(content)))],
              log |-> Log("hash mismatch", dest_path),
              issued |-> FALSE, exc |-> None]
        ELSE [fs |-> f,
              result |-> [res EXCEPT !.skipped = Append(@, dest_path)],
              log |-> Log("skipped (exists)", dest_path),
              issued |-> FALSE, exc |-> None]

\* ExistingFile without the digest check of lines 159-165
ExistingFileSkips(f, res, asset, tag, digest) ==
    [fs |-> f,
     result |-> [res EXCEPT !.skipped = Append(@, <<tag, asset.name>>)],
     log |-> Log("skipped (exists)", <<tag, asset.name>>),
     issued |-> FALSE, exc |-> None]

\* lines 158-169: the destination exists
ExistingFile(f, res, asset, tag, digest) ==
    LET dest_path == <<tag, asset.name>>
        content == FileAt(f, tag, asset.name)
    IN  IF Mismatch(content, digest)
        THEN [fs |-> f,
              result |-> [res EXCEPT !.hash_mismatches =
                            Append(@, HashMismatchError(dest_path, digest,
                                                        _compute_sha256(content)))],
              log |-> Log("hash mismatch", dest_path),
              issued |-> FALSE, exc |-> None]
        ELSE [fs |-> f,
              result |-> [res EXCEPT !.skipped = Append(@, dest_path)],
              log |-> Log("skipped (exists)", dest_path),
              issued |-> FALSE, exc |-> None]

\* DownloadFailed with the error appended once more by a second handler
DownloadFailedTwice(f, res, dest_path) ==
    [fs |-> f,
     result |-> [res EXCEPT !.errors =
                   Append(Append(@, Log("download failed", dest_path)),
                          Log("download failed", dest_path))],
     log |-> Log("download failed", dest_path),
     issued |-> TRUE, exc |-> None]

\* lines 179-182: except ConnectionError
DownloadFailed(f, res, dest_path) ==
    [fs |-> f,
     result |-> [res EXCEPT !.errors = Append(@, Log("download failed", dest_path))],
     log |-> Log("download failed", dest_path),
     issued |-> TRUE, exc |-> None]

_download_asset(f, res, asset, tag, digest_override, dry, status) ==
    LET dest_path == <<tag, asset.name>>
        digest == BestDigest(asset, digest_override)
    IN  IF FileAt(f, tag, asset.name) # Absent
        THEN ExistingFile(f, res, asset, tag, digest)
        ELSE IF dry
        THEN [fs |-> f, result |-> res, log |-> Log("would download", dest_path),
              issued |-> FALSE, exc |-> None]
        ELSE CASE status = "ok" ->
                    AfterDownload(WriteFile(f, tag, asset.name, Remote(asset.download_url)),
                                  res, asset, tag, digest)
               [] status = "ConnectionError" -> DownloadFailed(f, res, dest_path)
               [] OTHER ->
                    [fs |-> WriteFile(f, tag, asset.name, Partial),
                     result |-> res,
                     log |-> Log("downloading", dest_path),
                     issued |-> TRUE, exc |-> status]

(***************************************************************************)
(* mirror_repository, lines 234-248: the head of the loop over releases.   *)
(***************************************************************************)
\* TrackLatest without the test `latest_release is None`
TrackLatestLast(cur, release) ==
    IF ~release.prerelease THEN release.tag_name ELSE cur

\* lines 239-240
TrackLatest(cur, release) ==
    IF ~release.prerelease /\ cur = None THEN release.tag_name ELSE cur

\* release_dir.mkdir(parents=True, exist_ok=True) raises FileExistsError when
\* the path is taken by something that is no directory
MkdirRaises(f, tag) ==
    \/ f.root[tag].kind = "file"
    \/ f.root[tag].kind = "link" /\ Resolve(f, tag) = None

Mkdir(f, tag) ==
    IF f.root[tag].kind = "none" THEN [f EXCEPT !.root[tag] = DirEntry] ELSE f

Select(assets, manifest) ==
    SelectSeq(assets, LAMBDA a : is_checksum_file(a.name) = manifest)

Tagged(assets, manifest) ==
    [i \in 1..Len(assets) |-> [asset |-> assets[i], manifest |-> manifest]]

\* AssetQueue as one loop over release.assets
AssetQueueInListingOrder(release) ==
    [i \in 1..Len(release.assets) |->
        [asset |-> release.assets[i], manifest |-> is_checksum_file(release.assets[i].name)]]

\* lines 247-248 and the order of the two loops that follow
AssetQueue(release) ==
    Tagged(Select(release.assets, TRUE), TRUE) \o Tagged(Select(release.assets, FALSE), FALSE)

\* SkipsRelease without the test of line 235
SkipsNothing(release) == FALSE

\* line 235: if release.draft
SkipsRelease(release) == release.draft

NextRelease ==
    /\ pc = "release"
    /\ idx <= Len(listing)
    /\ LET release == listing[idx]
       IN  IF SkipsRelease(release)
           THEN /\ idx' = idx + 1
                /\ lastLog' = Log("skipping draft", release.tag_name)
                /\ UNCHANGED <<fs, pc, queue, hash_lookup, latest_release, exc>>
           ELSE /\ latest_release' = TrackLatest(latest_release, release)
                /\ hash_lookup' = EmptyMap
                /\ IF ~dry_run /\ MkdirRaises(fs, release.tag_name)
                   THEN /\ Raise("FileExistsError")
                        /\ UNCHANGED <<fs, idx, queue, lastLog>>
                   ELSE /\ fs' = IF dry_run THEN fs ELSE Mkdir(fs, release.tag_name)
                        /\ queue' = AssetQueue(release)
                        /\ idx' = IF AssetQueue(release) = <<>> THEN idx + 1 ELSE idx
                        /\ pc' = IF AssetQueue(release) = <<>> THEN "release" ELSE "assets"
                        /\ UNCHANGED <<lastLog, exc>>
    /\ UNCHANGED <<origin, runs, dry_run, listing, listed, result, issued, rl, prev,
                   pending, total, retry, client, requests_before, exit_code, ident, conv, pager>>

(***************************************************************************)
(* mirror_repository, lines 252-270: one asset of the current release.     *)
(***************************************************************************)
\* DigestOverride without the test `not asset.digest`
DigestOverrideAlways(asset, lookup) ==
    IF asset.name \in DOMAIN lookup THEN lookup[asset.name] ELSE None

\* lines 266-269
DigestOverride(asset, lookup) ==
    IF asset.digest = None /\ asset.name \in DOMAIN lookup
    THEN lookup[asset.name]
    ELSE None

\* lines 254-259: the manifest is read and parsed if it is on disk
ReadManifest(f, tag, asset, lookup) ==
    IF FileAt(f, tag, asset.name) # Absent
    THEN MapUpdate(lookup, parse_checksums(Text(FileAt(f, tag, asset.name)), asset.name))
    ELSE lookup

DownloadAsset ==
    /\ pc = "assets"
    /\ queue # <<>>
    /\ LET head == Head(queue)
           tag == listing[idx].tag_name
           override == IF head.manifest THEN None
                       ELSE DigestOverride(head.asset, hash_lookup)
       IN  \E status \in DownloadStatuses :
              LET r == _download_asset(fs, result, head.asset, tag, override,
                                       dry_run, status)
              IN  /\ fs' = r.fs
                  /\ result' = r.result
                  /\ lastLog' = r.log
                  /\ issued' = r.issued
                  /\ IF r.exc # None
                     THEN /\ Raise(r.exc)
                          /\ UNCHANGED <<queue, hash_lookup, idx>>
                     ELSE /\ exc' = exc
                          /\ queue' = Tail(queue)
                          /\ hash_lookup' = IF head.manifest
                                            THEN ReadManifest(r.fs, tag, head.asset, hash_lookup)
                                            ELSE hash_lookup
                          /\ idx' = IF Tail(queue) = <<>> THEN idx + 1 ELSE idx
                          /\ pc' = IF Tail(queue) = <<>> THEN "release" ELSE "assets"
    /\ UNCHANGED <<origin, runs, dry_run, listing, listed, latest_release, rl, prev,
                   pending, total, retry, client, requests_before, exit_code, ident, conv, pager>>

(***************************************************************************)
(* _update_latest_symlink(repo_path, latest_tag), and the return of        *)
(* mirror_repository.                                                      *)
(***************************************************************************)
\* LatestBlocked without the check of line 129
LatestNeverBlocked(f) == FALSE

\* line 129
LatestBlocked(f) == Exists(f, LatestName) /\ ~IsSymlink(f, LatestName)

\* SymlinkIntent without the test of line 133
SymlinkIntentAlwaysUpdates(dry) == "update"

\* lines 133-135: if self.dry_run
SymlinkIntent(dry) == IF dry THEN "would create symlink" ELSE "update"

\* lines 123-135: what the checks before the update decide
LatestDecision(f, latest_tag, dry) ==
    IF ~Exists(f, latest_tag) THEN "no target"
    ELSE IF IsSymlink(f, LatestName) /\ Resolve(f, LatestName) = Resolve(f, latest_tag)
    THEN "current"
    ELSE IF LatestBlocked(f) THEN "blocked"
    ELSE SymlinkIntent(dry)

\* SymlinkTemp as "delete the old link, then make the new one"
SymlinkAfterUnlink(f, latest_tag) ==
    [f EXCEPT !.root[LatestName] = NoEntry, !.root[TempName] = LinkTo(latest_tag)]

\* temp_link.symlink_to(latest_tag)
SymlinkTemp(f, latest_tag) == [f EXCEPT !.root[TempName] = LinkTo(latest_tag)]

\* temp_link.rename(latest_link)
RenameTemp(f) ==
    [f EXCEPT !.root[LatestName] = f.root[TempName], !.root[TempName] = NoEntry]

\* if temp_link.exists(): temp_link.unlink()
UnlinkTemp(f) == [f EXCEPT !.root[TempName] = NoEntry]

\* line 275: result.api_requests = client.request_count - requests_before
Return(res) == [res EXCEPT !.api_requests = client.request_count - requests_before]

\* lines 272-276 when the loop over the releases is over
EndReleases ==
    /\ pc = "release"
    /\ idx > Len(listing)
    /\ pc' = IF latest_release # None THEN "latest" ELSE "done"
    /\ result' = IF latest_release # None THEN result ELSE Return(result)
    /\ UNCHANGED <<fs, origin, runs, lastLog, exc, prev, pending, total, retry, client,
                   requests_before, exit_code, ident, conv, pager>>
    /\ UNCHANGED loopVars

UpdateLatest ==
    /\ pc = "latest"
    /\ LET d == LatestDecision(fs, latest_release, dry_run)
       IN  IF d = "update"
           THEN \E os_ok \in BOOLEAN :
                   IF os_ok
                   THEN /\ fs' = SymlinkTemp(fs, latest_release)
                        /\ pc' = "rename"
                        /\ UNCHANGED <<exc, lastLog>>
                   ELSE /\ Raise("OSError")
                        /\ UNCHANGED <<fs, lastLog>>
           ELSE /\ pc' = "done"
                /\ lastLog' = IF d \in {"blocked", "would create symlink"}
                              THEN Log(d, LatestName)
                              ELSE lastLog
                /\ UNCHANGED <<fs, exc>>
    /\ result' = IF pc' = "done" THEN Return(result) ELSE result
    /\ UNCHANGED <<origin, runs, prev, pending, total, retry, client, requests_before,
                   exit_code, ident, conv, pager>>
    /\ UNCHANGED loopVars

RenameLatest ==
    /\ pc = "rename"
    /\ \E os_ok \in BOOLEAN :
          IF os_ok
          THEN /\ fs' = RenameTemp(fs)
               /\ lastLog' = Log("updated latest", latest_release)
               /\ pc' = "done"
               /\ exc' = exc
          ELSE /\ fs' = UnlinkTemp(fs)
               /\ Raise("OSError")
               /\ UNCHANGED lastLog
    /\ result' = IF pc' = "done" THEN Return(result) ELSE result
    /\ UNCHANGED <<origin, runs, prev, pending, total, retry, client, requests_before,
                   exit_code, ident, conv, pager>>
    /\ UNCHANGED loopVars

Next ==
    \/ Start
    \/ ListReleases
    \/ RetryListing
    \/ NextRelease
    \/ DownloadAsset
    \/ EndReleases
    \/ UpdateLatest
    \/ RenameLatest

Spec == Init /\ [][Next]_vars

(***************************************************************************)
(* mirror_all: the loop over config.urls.                                  *)
(***************************************************************************)
Extend(t, r) ==
    [downloaded |-> t.downloaded \o r.downloaded,
     skipped |-> t.skipped \o r.skipped,
     errors |-> t.errors \o r.errors,
     hash_mismatches |-> t.hash_mismatches \o r.hash_mismatches,
     api_requests |-> t.api_requests + r.api_requests]

InitBatch ==
    /\ fs \in {EmptyRoot, OccupiedRoot}
    /\ origin = IF fs = EmptyRoot THEN "empty" ELSE "occupied"
    /\ InitRun
    /\ \E d \in BOOLEAN : dry_run = d
    /\ pc = "next_url"
    /\ pending \in SeqsUpTo(BatchUrls, MaxUrls) \ {<<>>}
    /\ total = MirrorResult
    /\ retry = NoRetry
    /\ client = NoClient
    /\ requests_before = 0
    /\ exit_code = Running
    /\ ident = NoIdent
    /\ conv = NoConv
    /\ pager = NoPager

\* lines 281-289: the next url is resolved and its repository mirrored
NextUrl ==
    /\ pc = "next_url"
    /\ pending # <<>>
    /\ IF from_url(Head(pending)).ok
       THEN /\ BeginRun(dry_run)
            /\ runs' = runs + 1
            /\ requests_before' = client.request_count
            /\ UNCHANGED <<pending, total>>
       ELSE /\ total' = [total EXCEPT !.errors =
                            Append(@, Log(from_url(Head(pending)).error, Head(pending)))]
            /\ lastLog' = Log(from_url(Head(pending)).error, Head(pending))
            /\ pending' = Tail(pending)
            /\ UNCHANGED <<pc, runs, exc, requests_before>>
            /\ UNCHANGED runVars
    /\ UNCHANGED <<fs, origin, listing, prev, retry, client, exit_code, ident, conv, pager>>

\* lines 291-295: the result of mirror_repository is added to total_result
FoldResult ==
    /\ pc = "done"
    /\ pending # <<>>
    /\ total' = Extend(total, result)
    /\ pending' = Tail(pending)
    /\ pc' = "next_url"
    /\ UNCHANGED <<fs, origin, runs, lastLog, exc, prev, retry, client, requests_before, exit_code, ident, conv, pager>>
    /\ UNCHANGED runVars

\* line 297
ReturnTotal ==
    /\ pc = "next_url"
    /\ pending = <<>>
    /\ pc' = "returned"
    /\ UNCHANGED <<fs, origin, runs, lastLog, exc, prev, pending, total, retry, client, requests_before, exit_code, ident, conv, pager>>
    /\ UNCHANGED runVars

\* ExitCode as `return 0` whatever the result
ExitZero(r) == 0

\* main(), lines 188-193
ExitCode(r) == IF success(r) THEN 0 ELSE 1

\* main(), lines 174-193: mirror_all has returned and main returns the status
Exit ==
    /\ pc = "returned"
    /\ pc' = "exited"
    /\ exit_code' = ExitCode(total)
    /\ UNCHANGED <<fs, origin, runs, lastLog, exc, prev, pending, total, retry, client,
                   requests_before, ident, conv, pager>>
    /\ UNCHANGED runVars

\* an exception left mirror_all and main: the interpreter ends with status 1
Crash ==
    /\ pc = "raised"
    /\ pc' = "exited"
    /\ exit_code' = 1
    /\ UNCHANGED <<fs, origin, runs, lastLog, exc, prev, pending, total, retry, client,
                   requests_before, ident, conv, pager>>
    /\ UNCHANGED runVars

NextBatch ==
    \/ NextUrl
    \/ FoldResult
    \/ ReturnTotal
    \/ Exit
    \/ Crash
    \/ ListReleases
    \/ RetryListing
    \/ NextRelease
    \/ DownloadAsset
    \/ EndReleases
    \/ UpdateLatest
    \/ RenameLatest

SpecBatch == InitBatch /\ [][NextBatch]_vars

(***************************************************************************)
(* client.get_releases page by page, inside one run of mirror_repository.  *)
(* The host holds the releases pager.host; the request of page             *)
(* pager.fails_at, if it is made, raises pager.error (a transient failure  *)
(* after the retries of _request_with_retry).                              *)
(***************************************************************************)
\* the items the host answers for ?per_page=..&page=..
PageData(host, per_page, page) ==
    IF (page - 1) * per_page >= Len(host) THEN <<>>
    ELSE SubSeq(host, (page - 1) * per_page + 1,
                IF page * per_page < Len(host) THEN page * per_page ELSE Len(host))

\* LastPage with the test `if not data` alone
LastPageIfEmpty(data, per_page) == data = <<>>

\* lines 41-42 and 47-48: the two tests that end the loop
LastPage(data, per_page) == data = <<>> \/ Len(data) < per_page

\* AfterFailure as a `break`: the releases fetched so far are returned
BreakOnFailure(p, error) == [p EXCEPT !.status = "ok"]

\* line 39: the exception of _request_with_retry leaves get_releases, and
\* with it the releases fetched so far
AfterFailure(p, error) == [p EXCEPT !.status = error]

\* what may go wrong in one call of get_releases: nothing, or the request of
\* one page
FailurePlans ==
    { [at |-> 0, error |-> None] }
    \cup { [at |-> k, error |-> e] : k \in 1..(MaxHost + 1), e \in ListOutcomes \ {"ok"} }

\* get_releases is entered: lines 34-35
NewCall(p, plan, call) ==
    [p EXCEPT !.fails_at = plan.at, !.error = plan.error, !.call = call,
              !.page = 1, !.releases = <<>>, !.asked = <<>>, !.status = "fetching"]

InitPages ==
    /\ fs \in {EmptyRoot, OccupiedRoot}
    /\ origin = IF fs = EmptyRoot THEN "empty" ELSE "occupied"
    /\ pc = "list"
    /\ runs = 1
    /\ dry_run \in BOOLEAN
    /\ listing = <<>>
    /\ listed = FALSE
    /\ idx = 0
    /\ queue = <<>>
    /\ hash_lookup = EmptyMap
    /\ latest_release = None
    /\ result = MirrorResult
    /\ issued = FALSE
    /\ lastLog = Log("mirroring", None)
    /\ exc = None
    /\ rl = NoWait
    /\ prev = NoPrev
    /\ pending = <<>>
    /\ total = MirrorResult
    /\ retry = NoRetry
    /\ client = NoClient
    /\ requests_before = 0
    /\ exit_code = Running
    /\ ident = NoIdent
    /\ conv = NoConv
    /\ \E host \in SeqsUpTo(BatchPool, MaxHost), per_page \in 1..MaxPerPage,
          plan \in FailurePlans :
          pager = NewCall([NoPager EXCEPT !.host = host, !.per_page = per_page], plan, 1)

\* one turn of the loop of get_releases, lines 37-50
FetchPage ==
    /\ pc \in {"list", "sleep"}
    /\ pager.status = "fetching"
    /\ LET out == IF pager.fails_at = pager.page THEN pager.error ELSE "ok"
           data == PageData(pager.host, pager.per_page, pager.page)
           asked == [pager EXCEPT !.asked = Append(@, pager.page)]
           got == [asked EXCEPT !.releases = @ \o data]
       IN  /\ \E n \in ListRequests(out) : client' = Count(client, n)
           /\ pager' = IF out # "ok" THEN AfterFailure(asked, out)
                       ELSE IF LastPage(data, pager.per_page)
                       THEN [got EXCEPT !.status = "ok"]
                       ELSE [got EXCEPT !.page = @ + 1]
    /\ UNCHANGED <<fs, origin, pc, runs, lastLog, exc, prev, pending, total, retry,
                   requests_before, exit_code, ident, conv>>
    /\ UNCHANGED runVars

\* get_releases returns or raises, and mirror_repository goes on (lines
\* 205-230); after the rate-limit wait get_releases is called once more
ReturnListing ==
    /\ pc \in {"list", "sleep"}
    /\ pager.status \notin {None, "fetching"}
    /\ IF pc = "list"
       THEN FirstListing(pager.status, {pager.releases})
       ELSE SecondListing(pager.status, {pager.releases})
    /\ IF pc = "list" /\ pager.status = "RateLimitError"
       THEN \E plan \in FailurePlans : pager' = NewCall(pager, plan, 2)
       ELSE pager' = pager
    /\ UNCHANGED <<fs, origin, runs, dry_run, queue, hash_lookup, latest_release,
                   issued, pending, total, retry, client, requests_before, exit_code,
                   ident, conv>>

NextPages ==
    \/ FetchPage
    \/ ReturnListing
    \/ NextRelease
    \/ DownloadAsset
    \/ EndReleases
    \/ UpdateLatest
    \/ RenameLatest

SpecPages == InitPages /\ [][NextPages]_vars

\* the program runs: a loop that can take its next turn takes it
SpecPagesFair == SpecPages /\ WF_pager(FetchPage)

(***************************************************************************)
(* One call of a retry loop of the transport core: what every attempt      *)
(* meets and the jitter drawn after it are the inputs.                     *)
(***************************************************************************)
Jitters == 0..(JitterTicks - 1)

InitRetry ==
    /\ fs = EmptyRoot
    /\ origin = "empty"
    /\ InitRun
    /\ pc = "retry"
    /\ pending = <<>>
    /\ total = MirrorResult
    /\ client = NoClient
    /\ requests_before = 0
    /\ exit_code = Running
    /\ ident = NoIdent
    /\ conv = NoConv
    /\ pager = NoPager
    /\ \E op \in {"request", "download"} :
          \E outs \in [1..MAX_RETRIES ->
                         IF op = "request" THEN RequestOutcomes ELSE AttemptOutcomes],
             jit \in [1..MAX_RETRIES -> Jitters],
             dest \in IF op = "request" THEN {Absent} ELSE {Absent, Partial} :
             retry = [op |-> op, outs |-> outs, jit |-> jit, dest |-> dest,
                      res |-> NoResult]

CallRetryLoop ==
    /\ pc = "retry"
    /\ retry' = [retry EXCEPT
                    !.res = IF retry.op = "request"
                            THEN _request_with_retry(retry.outs, retry.jit)
                            ELSE download_file(retry.outs, retry.jit),
                    !.dest = IF retry.op = "request"
                             THEN retry.dest
                             ELSE DestLoop(retry.outs, "u1", 0, retry.dest)]
    /\ pc' = "retried"
    /\ UNCHANGED <<fs, origin, runs, lastLog, exc, prev, pending, total, client, requests_before, exit_code, ident, conv, pager>>
    /\ UNCHANGED runVars

NextRetry == CallRetryLoop

SpecRetry == InitRetry /\ [][NextRetry]_vars

(***************************************************************************)
(* One call of Repository.from_url.  The string is a prefix (nothing, a     *)
(* shorthand, or scheme and authority), a path and a tail of `.git` and     *)
(* `/` tokens; core is the string without the tail.                         *)
(***************************************************************************)
Prefixes ==
    { <<>>, <<"gh:">>, <<"gl:">>,
      <<"https://", "github.com", "/">>,
      <<"http://", "www.github.com", "/">>,
      <<"https://", "GitHub.com", "/">>,
      <<"https://", "gitlab.com", "/">>,
      <<"http://", "gitlab.example.com", "/">>,
      <<"https://", "bitbucket.org", "/">> }

Paths ==
    { <<"a", "/", "b">>, <<"a">>, <<>>, <<"a", "/", "b", "/", "c">>,
      <<"/", "b">>, <<"a", "/", "/", "b">> }

Tails == { <<>>, <<".git">>, <<"/">>, <<".git", "/">>, <<"/", ".git">>, <<"/", "/">> }

InitUrl ==
    /\ fs = EmptyRoot
    /\ origin = "empty"
    /\ InitRun
    /\ pc = "parse"
    /\ pending = <<>>
    /\ total = MirrorResult
    /\ retry = NoRetry
    /\ client = NoClient
    /\ requests_before = 0
    /\ exit_code = Running
    /\ conv = NoConv
    /\ pager = NoPager
    /\ \E p \in Prefixes, q \in Paths, t \in Tails :
          ident = [raw |-> p \o q \o t, core |-> p \o q, res |-> None]

ParseUrl ==
    /\ pc = "parse"
    /\ ident' = [ident EXCEPT !.res = from_url(ident.raw)]
    /\ pc' = "parsed"
    /\ UNCHANGED <<fs, origin, runs, lastLog, exc, prev, pending, total, retry, client,
                   requests_before, exit_code, conv, pager>>
    /\ UNCHANGED runVars

NextUrlParse == ParseUrl

SpecUrl == InitUrl /\ [][NextUrlParse]_vars

(***************************************************************************)
(* One asset of an API answer and the manifest of its release.  The value  *)
(* of the `digest` field of the API is a sequence of tokens: nothing, or an *)
(* optional algorithm prefix and the rest of the string.                   *)
(***************************************************************************)
ApiDigests ==
    { <<>>, <<"sha256:", "h1">>, <<"sha256:", "H1">>, <<"sha256:", "abc">>,
      <<"sha512:", "h1">>, <<"h1">>, <<"sha256:">> }

\* the string a sequence of tokens spells
Str(d) ==
    CASE d = <<>> -> None
      [] Len(d) = 1 -> d[1]
      [] d = <<"sha512:", "h1">> -> "sha512:h1"

\* lines 26-28: digest = data.get("digest"); a `sha256:` prefix is cut off
from_github_api(data) ==
    LET digest == IF data.digest # <<>> /\ data.digest[1] = "sha256:"
                  THEN Tail(data.digest)
                  ELSE data.digest
    IN  Asset(data.name, Str(digest), data.browser_download_url)

ApiAsset(n, d, u) == [name |-> n, digest |-> d, browser_download_url |-> u]

ManifestLines ==
    { Line("H1", <<>>), Line("h2", <<"./", "app">>), Line("#", <<>>),
      Line("H2", <<"app">>), Line("abc", <<"app">>) }

ManifestNames == { SidecarName, <<"checksums.txt">> }

InitDigest ==
    /\ fs = EmptyRoot
    /\ origin = "empty"
    /\ InitRun
    /\ pc = "translate"
    /\ pending = <<>>
    /\ total = MirrorResult
    /\ retry = NoRetry
    /\ client = NoClient
    /\ requests_before = 0
    /\ exit_code = Running
    /\ ident = NoIdent
    /\ pager = NoPager
    /\ \E d \in ApiDigests, c \in SeqsUpTo(ManifestLines, MaxLines), n \in ManifestNames :
          conv = [NoConv EXCEPT !.data = ApiAsset(AppName, d, "u1"),
                                !.content = c, !.sidecar = n]

\* the asset is translated, the manifest parsed and the digest of
\* _download_asset chosen (mirror.py lines 156 and 266-270)
Translate ==
    /\ pc = "translate"
    /\ LET asset == from_github_api(conv.data)
           lookup == parse_checksums(conv.content, conv.sidecar)
       IN  conv' = [conv EXCEPT !.digest = asset.digest,
                                !.lookup = lookup,
                                !.used = BestDigest(asset, DigestOverride(asset, lookup))]
    /\ pc' = "translated"
    /\ UNCHANGED <<fs, origin, runs, lastLog, exc, prev, pending, total, retry, client,
                   requests_before, exit_code, ident, pager>>
    /\ UNCHANGED runVars

NextDigest == Translate

SpecDigest == InitDigest /\ [][NextDigest]_vars

(***************************************************************************)
(* The API client alone: a sequence of requests, each through _request or  *)
(* through get_release_count, with time passing between them.  The status  *)
(* and the headers of every response are inputs.                           *)
(***************************************************************************)
InitClient ==
    /\ fs = EmptyRoot
    /\ origin = "empty"
    /\ InitRun
    /\ pc = "client"
    /\ pending = <<>>
    /\ total = MirrorResult
    /\ retry = NoRetry
    /\ \E platform \in {"github", "gitlab"} :
          client = [NoClient EXCEPT !.platform = platform]
    /\ requests_before = 0
    /\ exit_code = Running
    /\ ident = NoIdent
    /\ conv = NoConv
    /\ pager = NoPager

\* lines 85-86 and 116-117: a request is issued now, after the last response
Issue(c) ==
    [c EXCEPT !.request_count = @ + 1,
              !.issued_at = c.now,
              !.before_remaining = c.remaining,
              !.before_reset = c.reset,
              !.waited = 0]

\* a response arrives: its headers are those of the last response from now on
Receive(c, remaining, reset_time, waited, outcome) ==
    [c EXCEPT !.remaining = remaining,
              !.reset = reset_time,
              !.waited = waited,
              !.now = c.now + waited,
              !.last = outcome]

\* the status of the response, the method that read it and the reset time of
\* the RateLimitError it raised
Handled_by(c, via, status_code, exc_reset) ==
    [c EXCEPT !.via = via, !.status = status_code, !.exc_reset = exc_reset]

\* BaseClient._request
Request ==
    /\ pc = "client"
    /\ client.request_count < MaxRequests
    /\ \E answered \in BOOLEAN, status_code \in StatusCodes,
          remaining \in Remainings, reset_time \in Resets :
          client' = IF ~answered
                    THEN Handled_by([Issue(client) EXCEPT !.last = "ConnectionError"],
                                    "_request", 0, -1)
                    ELSE Handled_by(
                           Receive(Issue(client), remaining, reset_time,
                                   _check_rate_limit(remaining, reset_time, client.now),
                                   HandleErrorResponse(client.platform, status_code,
                                                       remaining, reset_time)),
                           "_request", status_code,
                           RaisedResetTime(status_code, remaining, reset_time))
    /\ UNCHANGED <<fs, origin, pc, runs, lastLog, exc, prev, pending, total, retry,
                   requests_before, exit_code, ident, conv, pager>>
    /\ UNCHANGED runVars

\* BaseClient.get_release_count: the response is read without _check_rate_limit
CountReleases ==
    /\ pc = "client"
    /\ client.request_count < MaxRequests
    /\ \E answered \in BOOLEAN, status_code \in StatusCodes,
          remaining \in Remainings, reset_time \in Resets :
          client' = IF ~answered
                    THEN Handled_by([Issue(client) EXCEPT !.last = "ConnectionError"],
                                    "get_release_count", 0, -1)
                    ELSE Handled_by(
                           Receive(Issue(client), remaining, reset_time, 0,
                                   IF status_code = 404 THEN "FileNotFoundError"
                                   ELSE IF status_code # 200 THEN "RuntimeError"
                                   ELSE "ok"),
                           "get_release_count", status_code, -1)
    /\ UNCHANGED <<fs, origin, pc, runs, lastLog, exc, prev, pending, total, retry,
                   requests_before, exit_code, ident, conv, pager>>
    /\ UNCHANGED runVars

\* time passes between two requests
Tick ==
    /\ pc = "client"
    /\ client.now < MaxClock
    /\ client' = [client EXCEPT !.now = @ + 1]
    /\ UNCHANGED <<fs, origin, pc, runs, lastLog, exc, prev, pending, total, retry,
                   requests_before, exit_code, ident, conv, pager>>
    /\ UNCHANGED runVars

NextClient ==
    \/ Request
    \/ CountReleases
    \/ Tick

SpecClient == InitClient /\ [][NextClient]_vars

(***************************************************************************)
(* Properties of the engine.                                               *)
(***************************************************************************)
Range(q) == { q[i] : i \in 1..Len(q) }

Min(S) == CHOOSE x \in S : \A y \in S : x <= y

\* the destination paths of the assets of the non-draft releases of a listing
AssetPaths(l) ==
    UNION { { <<l[i].tag_name, l[i].assets[j].name>> : j \in 1..Len(l[i].assets) } :
              i \in { k \in 1..Len(l) : ~l[k].draft } }

RECURSIVE AssetCount(_)
AssetCount(l) ==
    IF l = <<>> THEN 0
    ELSE (IF Head(l).draft THEN 0 ELSE Len(Head(l).assets)) + AssetCount(Tail(l))

AllSkipped ==
    /\ AssetPaths(listing) \subseteq Range(result.skipped)
    /\ Len(result.skipped) = AssetCount(listing)

\* the run before completed, was no dry run and was given the same listing
Rerun == pc = "done" /\ listed /\ prev.valid

Idempotent ==
    /\ result.downloaded = <<>>
    /\ AllSkipped
    /\ fs.root[LatestName] = prev.latest

KnownDigest(asset) ==
    IF asset.digest # None THEN asset.digest
    ELSE IF asset.name \in DOMAIN hash_lookup THEN hash_lookup[asset.name]
    ELSE None

CurrentTag == listing[idx].tag_name

HeadContent == FileAt(fs, CurrentTag, Head(queue).asset.name)

\* C2: when the destination of an asset exists and its sha256 differs from the
\* best-known digest, _download_asset records exactly one hash mismatch, records
\* the asset neither as skipped nor as downloaded, issues no download and leaves
\* the file system as it is.
C2_ExistingMismatch ==
    [][ ( /\ pc = "assets"
          /\ HeadContent # Absent
          /\ KnownDigest(Head(queue).asset) # None
          /\ _compute_sha256(HeadContent) # KnownDigest(Head(queue).asset) )
        => ( /\ Len(result'.hash_mismatches) = Len(result.hash_mismatches) + 1
             /\ result'.hash_mismatches[Len(result'.hash_mismatches)].path
                   = <<CurrentTag, Head(queue).asset.name>>
             /\ result'.skipped = result.skipped
             /\ result'.downloaded = result.downloaded
             /\ result'.errors = result.errors
             /\ ~issued'
             /\ fs' = fs ) ]_vars

C2_Witness ==
    /\ lastLog.msg = "hash mismatch"
    /\ FileAt(fs, lastLog.subject[1], lastLog.subject[2]) \in {"c1", Partial}
    /\ Len(result.hash_mismatches) = 1

MismatchPaths == { result.hash_mismatches[i].path : i \in 1..Len(result.hash_mismatches) }

\* C3: when a freshly downloaded file fails the digest check, after
\* _download_asset returns the file is not at its destination, the asset is in
\* hash_mismatches and it is not in downloaded.
C3_PostDownloadMismatch ==
    lastLog.msg = "hash mismatch after download" =>
        /\ FileAt(fs, lastLog.subject[1], lastLog.subject[2]) = Absent
        /\ lastLog.subject \in MismatchPaths
        /\ lastLog.subject \notin Range(result.downloaded)

C3_Witness ==
    /\ lastLog.msg = "hash mismatch after download"
    /\ issued
    /\ pc = "release"

StableAt(l) == { i \in 1..Len(l) : ~l[i].draft /\ ~l[i].prerelease }

FirstStableTag(l) == l[Min(StableAt(l))].tag_name

NonSymlinkAtLatest(f) == f.root[LatestName].kind \in {"file", "dir"}

\* C5: after a completed non-dry-run run whose listing has a release that is
\* neither draft nor prerelease, and unless something that is no symbolic link
\* occupies `latest`, `latest` is a symbolic link that resolves to the directory
\* of the first such release of the listing.
C5_LatestFinal ==
    ( /\ pc = "done"
      /\ listed
      /\ ~dry_run
      /\ StableAt(listing) # {}
      /\ ~NonSymlinkAtLatest(fs) )
    => ( /\ IsSymlink(fs, LatestName)
         /\ Resolve(fs, LatestName) # None
         /\ Resolve(fs, LatestName) = Resolve(fs, FirstStableTag(listing)) )

C5_Witness ==
    /\ pc = "done"
    /\ lastLog.msg = "updated latest"
    /\ Len(listing) = 2
    /\ listing[1].prerelease
    /\ fs.root[LatestName] = LinkTo(listing[2].tag_name)

\* C6: while _update_latest_symlink repoints an existing `latest` link, at
\* every step (the temporary link is made, it is renamed over `latest`) `latest`
\* is a symbolic link to an existing release directory.
C6_LatestAtomic ==
    [][ (pc \in {"latest", "rename"} /\ IsSymlink(fs, LatestName))
        => (IsSymlink(fs', LatestName) /\ Resolve(fs', LatestName) # None) ]_vars

C6_Witness ==
    /\ pc = "rename"
    /\ IsSymlink(fs, LatestName)
    /\ IsSymlink(fs, TempName)
    /\ fs.root[TempName] # fs.root[LatestName]

\* C7: in every state of any sequence of runs from an empty root, `latest`,
\* when present, is a symbolic link to an existing release directory of the
\* root, whatever the tag names of the listing.
C7_StorageInvariant ==
    (origin = "empty" /\ fs.root[LatestName].kind # "none")
    => ( /\ IsSymlink(fs, LatestName)
         /\ Resolve(fs, LatestName) \in Tags \ {LatestName} )

\* C8: when something that is no symbolic link occupies `latest`,
\* _update_latest_symlink changes nothing under the root and raises nothing.
C8_NonSymlinkUntouched ==
    [][ (pc = "latest" /\ NonSymlinkAtLatest(fs))
        => (fs' = fs /\ pc' = "done" /\ exc' = None) ]_vars

C8_Witness ==
    /\ pc = "done"
    /\ lastLog = Log("blocked", LatestName)
    /\ fs.root[LatestName] = FileEntry
    /\ latest_release = "v1"
    /\ fs.root[TempName] = NoEntry

\* C9: after a rate-limited first listing the run sleeps until a second after
\* the reset time and lists once more; any failure of that second listing is
\* recorded as one error and the run returns its result.
C9_RateLimitedListing ==
    [][ pc = "sleep"
        => ( /\ rl.now + rl.wait >= rl.reset + 1
             /\ \/ listed' /\ pc' = "release"
                \/ /\ pc' = "done"
                   /\ Len(result'.errors) = 1
                   /\ exc' = None ) ]_vars

\* mirror_all has stopped: it returned or an exception left it
BatchStopped == pc \in {"returned", "raised"}

\* C4: whatever fails while one repository is resolved, listed or mirrored, the
\* failure is recorded in the combined result and every later url of the list
\* is still processed: mirror_all stops only by returning, with no url left.
C4_BatchIsolation ==
    BatchStopped => (pc = "returned" /\ pending = <<>> /\ exc = None)

\* the entries of the four lists of the result
Outcomes ==
    Len(result.downloaded) + Len(result.skipped) + Len(result.errors)
        + Len(result.hash_mismatches)

\* the assets the loops over releases and assets have handled so far
Handled ==
    AssetCount(SubSeq(listing, 1, idx - 1))
        + (IF pc = "assets" THEN Len(AssetQueue(listing[idx])) - Len(queue) ELSE 0)

\* C13: a download that fails after the retries of the transport adds exactly
\* one error naming the asset, and the loops go on: at every point of a run
\* that is no dry run every asset handled so far has exactly one entry in the
\* result, so that a run that returns has handled every asset of every
\* non-draft release.
C13_FailureContainment ==
    /\ (listed /\ ~dry_run /\ pc \in {"release", "assets", "latest", "rename", "done"})
          => Outcomes = Handled
    /\ (listed /\ ~dry_run /\ pc = "done") => Outcomes = AssetCount(listing)
    /\ (lastLog.msg = "download failed" /\ pc \in {"release", "assets"})
          => /\ result.errors # <<>>
             /\ result.errors[Len(result.errors)] = Log("download failed", lastLog.subject)
             /\ exc = None

C13_Witness ==
    /\ pc = "done"
    /\ listed
    /\ Len(listing) = 2
    /\ result.errors = << Log("download failed", <<"v1", SidecarName>>) >>
    /\ Len(result.downloaded) = 2

\* the asset the last step of the asset loops handled
HasLastHandled ==
    \/ pc = "assets" /\ Len(queue) < Len(AssetQueue(listing[idx]))
    \/ pc = "release" /\ idx > 1 /\ AssetQueue(listing[idx - 1]) # <<>>
          /\ ~listing[idx - 1].draft

LastHandled ==
    IF pc = "assets"
    THEN AssetQueue(listing[idx])[Len(AssetQueue(listing[idx])) - Len(queue)]
    ELSE AssetQueue(listing[idx - 1])[Len(AssetQueue(listing[idx - 1]))]

\* C14: the digest a regular asset is verified against is the API's whenever
\* the API gives one, and the one the manifests of the release give for its
\* name only when the API gives none; a mismatch recorded for the asset names
\* that digest as the expected one.
C14_DigestPrecedence ==
    /\ (pc = "assets" /\ ~Head(queue).manifest)
          => LET asset == Head(queue).asset
                 used == BestDigest(asset, DigestOverride(asset, hash_lookup))
             IN  /\ asset.digest # None => used = asset.digest
                 /\ (asset.digest = None /\ asset.name \in DOMAIN hash_lookup)
                       => used = hash_lookup[asset.name]
                 /\ (asset.digest = None /\ asset.name \notin DOMAIN hash_lookup)
                       => used = None
    /\ ( /\ HasLastHandled
         /\ ~LastHandled.manifest
         /\ lastLog.msg \in {"hash mismatch", "hash mismatch after download"} )
          => result.hash_mismatches[Len(result.hash_mismatches)].expected
                = KnownDigest(LastHandled.asset)

C14_Witness ==
    /\ pc = "release"
    /\ HasLastHandled
    /\ LastHandled.asset = aGood
    /\ AppName \in DOMAIN hash_lookup
    /\ hash_lookup[AppName] = "h2"
    /\ lastLog = Log("downloaded", <<"v2", AppName>>)

\* the place of an asset in the listing of its release
Pos(assets, a) == CHOOSE i \in 1..Len(assets) : assets[i] = a

\* a step of the asset loops that handles the asset a of the current release:
\* no manifest of the release is still waiting when a regular asset is taken,
\* every asset of its kind still waiting is listed after it, and a manifest
\* that is on disk after its step has been parsed into hash_lookup
AssetInOrder ==
    LET a == Head(queue).asset
        assets == listing[idx].assets
        parsed == parse_checksums(Text(FileAt(fs', CurrentTag, a.name)), a.name)
    IN  /\ lastLog'.subject = <<CurrentTag, a.name>>
        /\ \A i \in 1..Len(queue') :
              LET b == queue'[i].asset
              IN  /\ ~is_checksum_file(a.name) => ~is_checksum_file(b.name)
                  /\ is_checksum_file(a.name) = is_checksum_file(b.name)
                        => Pos(assets, a) < Pos(assets, b)
        /\ (is_checksum_file(a.name) /\ FileAt(fs', CurrentTag, a.name) # Absent)
              => \A k \in DOMAIN parsed :
                    k \in DOMAIN hash_lookup' /\ hash_lookup'[k] = parsed[k]

\* C15: manifests are downloaded and parsed before any regular asset of their
\* release is examined and regular assets are handled in listing order;
\* releases are taken in listing order, and repositories in the order of
\* config.urls, one at a time.
C15_ProcessingOrder ==
    [][ /\ (pc = "assets" /\ pc' # "raised") => AssetInOrder
        /\ (pc \in {"release", "assets"} /\ pc' \in {"release", "assets"})
              => (idx' \in {idx, idx + 1} /\ listing' = listing)
        /\ pc' = "assets" => (idx' <= Len(listing') /\ ~listing'[idx'].draft)
        /\ pending' = pending \/ (pending # <<>> /\ pending' = Tail(pending))
        /\ (pc' = "list" /\ pc # "list") => (pc = "next_url" /\ pending' = pending)
      ]_vars

C15_Witness ==
    /\ pc = "assets"
    /\ runs = 2
    /\ Len(pending) = 1
    /\ idx = 2
    /\ listing[idx].assets = <<aPlain, aSideBad>>
    /\ queue = << [asset |-> aPlain, manifest |-> FALSE] >>
    /\ AppName \in DOMAIN hash_lookup
    /\ hash_lookup[AppName] = "h2"

\* C16: success holds exactly when errors and hash_mismatches are both empty,
\* and main() ends a mirror run with status 0 exactly when mirror_all returned
\* a result that is a success.
C16_ExitStatus ==
    /\ success(total) <=> (Len(total.errors) = 0 /\ Len(total.hash_mismatches) = 0)
    /\ success(result) <=> (Len(result.errors) = 0 /\ Len(result.hash_mismatches) = 0)
    /\ pc = "exited" =>
          /\ exit_code \in {0, 1}
          /\ exit_code = 0 <=>
                (exc = None /\ total.errors = <<>> /\ total.hash_mismatches = <<>>)

C16_Witness ==
    /\ pc = "exited"
    /\ exit_code = 1
    /\ exc = None
    /\ total.errors = <<>>
    /\ Len(total.hash_mismatches) = 1
    /\ Len(total.downloaded) >= 1

\* C17: when mirror_all returns, the api_requests of the combined result is the
\* number of API requests the client issued during the run.
C17_RequestAccounting ==
    pc = "returned" => total.api_requests = client.request_count

\* every release of the listing with this tag is a draft
OnlyDrafts(tag) == \A i \in 1..Len(listing) : listing[i].tag_name = tag => listing[i].draft

\* nothing of the tag is under the root
NothingOf(f, tag) ==
    /\ f.root[tag] = NoEntry
    /\ \A n \in Names : f.files[<<tag, n>>] = Absent

\* C22: the step of the release loop at a draft release creates no directory,
\* examines and downloads no asset, adds nothing to the result and leaves the
\* `latest` candidate as it is; in a first run over an empty root a tag that
\* only draft releases bear has nothing under the root and is no candidate.
C22_DraftsSkipped ==
    [][ /\ (pc = "release" /\ idx <= Len(listing) /\ listing[idx].draft)
              => /\ fs' = fs
                 /\ result' = result
                 /\ latest_release' = latest_release
                 /\ hash_lookup' = hash_lookup
                 /\ queue' = queue
                 /\ issued' = issued
                 /\ pc' = "release"
                 /\ idx' = idx + 1
        /\ (listed' /\ runs' = 1 /\ origin' = "empty")
              => \A tag \in Tags \ {LatestName} :
                    OnlyDrafts(tag)' => (NothingOf(fs', tag) /\ latest_release' # tag)
      ]_vars

C22_Witness ==
    /\ pc = "done"
    /\ listed
    /\ ~dry_run
    /\ runs = 1
    /\ origin = "empty"
    /\ Len(listing) = 2
    /\ listing[1].draft
    /\ listing[2].tag_name = "v1"
    /\ NothingOf(fs, "v2")
    /\ fs.root[LatestName] = LinkTo("v1")

\* the digest _download_asset is given for the asset at the head of the queue
HeadDigest ==
    IF Head(queue).manifest THEN Head(queue).asset.digest
    ELSE KnownDigest(Head(queue).asset)

HeadPath == <<CurrentTag, Head(queue).asset.name>>

\* C23: a run that finds at the destination of an asset the partial file an
\* interrupted run left there issues no download and leaves the file in place;
\* it records the asset as skipped when no digest is known for it and as a hash
\* mismatch (expected: the digest, actual: the hash of the partial file) when
\* one is known.
C23_PartialFileRecovery ==
    [][ (pc = "assets" /\ HeadContent = Partial)
        => /\ fs' = fs
           /\ ~issued'
           /\ pc' # "raised"
           /\ result'.downloaded = result.downloaded
           /\ result'.errors = result.errors
           /\ IF HeadDigest = None
              THEN /\ result'.skipped = Append(result.skipped, HeadPath)
                   /\ result'.hash_mismatches = result.hash_mismatches
              ELSE /\ result'.skipped = result.skipped
                   /\ result'.hash_mismatches =
                         Append(result.hash_mismatches,
                                HashMismatchError(HeadPath, HeadDigest,
                                                  _compute_sha256(Partial)))
      ]_vars

\* a second run has skipped the partial file the first run left when the
\* stream of an asset without digest broke
C23_Witness ==
    /\ runs = 2
    /\ pc = "done"
    /\ ~dry_run
    /\ listing = << Release("latest", FALSE, FALSE, <<aPlain>>) >>
    /\ result.skipped = << <<"latest", AppName>> >>
    /\ result.hash_mismatches = <<>>
    /\ FileAt(fs, "latest", AppName) = Partial

\* a second run has reported the partial file of an asset with a digest
C23_WitnessDigest ==
    /\ runs = 2
    /\ pc = "done"
    /\ Len(result.hash_mismatches) = 1
    /\ result.hash_mismatches[1] = HashMismatchError(<<"v2", AppName>>, "h1", "h0")
    /\ FileAt(fs, "v2", AppName) = Partial

\* the step has recorded an error or a hash mismatch
RecordedFailure ==
    \/ Len(result'.errors) > Len(result.errors)
    \/ Len(result'.hash_mismatches) > Len(result.hash_mismatches)

\* the step has recorded the asset as downloaded or as skipped
RecordedRetrieved ==
    \/ Len(result'.downloaded) > Len(result.downloaded)
    \/ Len(result'.skipped) > Len(result.skipped)

\* C24: a manifest whose download failed or whose own digest check failed
\* (recorded as error or as hash mismatch) adds no entry to the map of its
\* release, and the entries of every manifest that was retrieved are merged
\* into the map, over the entries of the manifests before it.
C24_ManifestContribution ==
    [][ (pc = "assets" /\ Head(queue).manifest /\ pc' # "raised")
        => /\ RecordedFailure => hash_lookup' = hash_lookup
           /\ RecordedRetrieved =>
                 hash_lookup' =
                    MapUpdate(hash_lookup,
                              parse_checksums(Text(FileAt(fs', CurrentTag, Head(queue).asset.name)),
                                              Head(queue).asset.name))
      ]_vars

\* every page asked so far but the last one was full
FullBeforeLast ==
    \A i \in 1..(Len(pager.asked) - 1) :
        Len(PageData(pager.host, pager.per_page, i)) = pager.per_page

\* the last page asked was empty or short
LastIsLast ==
    pager.asked # <<>>
    /\ Len(PageData(pager.host, pager.per_page, Len(pager.asked))) < pager.per_page

PagesInOrder ==
    pager.status # None =>
        /\ \A i \in 1..Len(pager.asked) : pager.asked[i] = i
        /\ Len(pager.asked) <= (Len(pager.host) \div pager.per_page) + 1
        /\ FullBeforeLast
        /\ pager.status = "ok"
              => /\ LastIsLast
                 /\ pager.releases = pager.host

\* C27: get_releases asks for the pages 1, 2, 3, ... in order and stops at the
\* first page that is empty or shorter than per_page; for a host with finitely
\* many releases the call ends, and a call that returns gives the releases of
\* the host in order, each exactly once.
C27_Pagination ==
    /\ []PagesInOrder
    /\ (pager.status = "fetching") ~> (pager.status # "fetching")

C27_Witness ==
    /\ pager.status = "ok"
    /\ Len(pager.host) = 3
    /\ pager.per_page = 2
    /\ pager.asked = <<1, 2>>
    /\ pager.releases = pager.host
    /\ pager.releases[1] # pager.releases[2]

\* the request of a page of the call of get_releases failed
PageFailed ==
    pager.fails_at # 0 /\ \E i \in 1..Len(pager.asked) : pager.asked[i] = pager.fails_at

InitialRoot == IF origin = "empty" THEN EmptyRoot ELSE OccupiedRoot

NothingProcessed ==
    /\ ~listed
    /\ listing = <<>>
    /\ fs = InitialRoot
    /\ result.downloaded = <<>>
    /\ result.skipped = <<>>
    /\ result.hash_mismatches = <<>>
    /\ latest_release = None
    /\ ~issued

\* C30: when the request of a page fails for good, the run ends without
\* processing any release, those of the pages fetched before included: no
\* directory is created, no asset is downloaded and `latest` is not touched;
\* the releases a run processes are the complete listing of a call that did
\* not fail.
C30_ListingAllOrNothing ==
    /\ (PageFailed /\ pc \notin {"list", "sleep"})
          => /\ NothingProcessed
             /\ pc \in {"done", "raised"}
             /\ pc = "done" => Len(result.errors) = 1
    /\ ~listed => NothingProcessed
    /\ listed => (~PageFailed /\ listing = pager.host)

C30_Witness ==
    /\ pc = "done"
    /\ ~dry_run
    /\ PageFailed
    /\ pager.fails_at = 2
    /\ pager.error = "ConnectionError"
    /\ Len(pager.releases) = 2
    /\ NothingProcessed
    /\ Len(result.errors) = 1

\* a run is under way
InRun == pc \in {"list", "sleep", "release", "assets", "latest", "rename"}

\* C28: no step of a dry run changes anything under the root (no directory,
\* no file written or deleted, no `latest` link made or repointed) or calls
\* download_file, and downloaded stays empty; a file that is at the destination
\* of an asset is still checked and recorded as skipped or as a hash mismatch.
C28_DryRunFrame ==
    [][ (dry_run /\ InRun)
        => /\ fs' = fs
           /\ ~issued'
           /\ result'.downloaded = <<>>
           /\ pc' # "rename"
           /\ (pc = "assets" /\ HeadContent # Absent)
                 => /\ Len(result'.skipped) + Len(result'.hash_mismatches)
                          = Len(result.skipped) + Len(result.hash_mismatches) + 1
                    /\ result'.errors = result.errors
                    /\ IF HeadDigest # None /\ _compute_sha256(HeadContent) # HeadDigest
                       THEN result'.hash_mismatches # result.hash_mismatches
                       ELSE result'.skipped = Append(result.skipped, HeadPath)
           /\ (pc = "assets" /\ HeadContent = Absent) => result' = result
      ]_vars

\* a dry run after a run that mirrored v1 and v2: it has reported a file and
\* only logged that `latest` would be repointed
C28_Witness ==
    /\ runs = 2
    /\ dry_run
    /\ pc = "done"
    /\ lastLog = Log("would create symlink", LatestName)
    /\ latest_release = "v1"
    /\ fs.root[LatestName] = LinkTo("v2")
    /\ Len(result.skipped) + Len(result.hash_mismatches) >= 1
    /\ result.downloaded = <<>>

\* the entries of a list that satisfy a test
CountWhere(q, Test(_)) == Cardinality({ i \in 1..Len(q) : Test(q[i]) })

\* the entries of the four lists of a result that name the path
EntriesFor(res, path) ==
    CountWhere(res.downloaded, LAMBDA e : e = path)
      + CountWhere(res.skipped, LAMBDA e : e = path)
      + CountWhere(res.errors, LAMBDA e : e.subject = path)
      + CountWhere(res.hash_mismatches, LAMBDA e : e.path = path)

\* the assets of the non-draft releases of a listing that have the path
RECURSIVE AssetsAt(_, _)
AssetsAt(l, path) ==
    IF l = <<>> THEN 0
    ELSE (IF Head(l).draft \/ Head(l).tag_name # path[1] THEN 0
          ELSE CountWhere(Head(l).assets, LAMBDA a : a.name = path[2]))
         + AssetsAt(Tail(l), path)

\* a run that is no dry run has completed
Completed == pc = "done" /\ listed /\ ~dry_run

\* every path of downloaded names a file that is on disk
DownloadedOnDisk ==
    \A i \in 1..Len(result.downloaded) :
        FileAt(fs, result.downloaded[i][1], result.downloaded[i][2]) # Absent

\* the step has recorded the asset at the head of the queue as downloaded
RecordsDownload == result'.downloaded = Append(result.downloaded, HeadPath)

\* C29: in a completed run that is no dry run every asset of every non-draft
\* release has exactly one entry in exactly one of the four lists of the
\* result; a file recorded as downloaded has the hash of the digest known for
\* its asset, and every path of downloaded is on disk when the run ends.
C29_OneOutcomePerAsset ==
    [][ /\ Completed'
              => /\ \A path \in Tags \X Names :
                       EntriesFor(result', path) = AssetsAt(listing', path)
                 /\ Outcomes' = AssetCount(listing')
                 /\ DownloadedOnDisk'
        /\ (pc = "assets" /\ ~dry_run /\ RecordsDownload)
              => /\ FileAt(fs', HeadPath[1], HeadPath[2]) # Absent
                 /\ HeadDigest # None
                       => _compute_sha256(FileAt(fs', HeadPath[1], HeadPath[2])) = HeadDigest
      ]_vars

(***************************************************************************)
(* Properties of the retry loops.                                          *)
(***************************************************************************)
\* the conditions the design calls transient: a 5xx answer or a failure of the
\* connection, while the response is opened or while its body is read
Transient(op, out) ==
    IF op = "request" THEN out = "ConnectionError" ELSE out \in {"transient", "stream"}

AllTransient == \A i \in 1..MAX_RETRIES : Transient(retry.op, retry.outs[i])

Increasing(q) == \A i \in 1..Len(q) : \A j \in 1..Len(q) : i < j => q[i] < q[j]

RetryBudget ==
    /\ retry.res.attempts = MAX_RETRIES
    /\ retry.res.status # "ok"
    /\ Len(retry.res.delays) = MAX_RETRIES - 1
    /\ Increasing(retry.res.delays)

\* C10: when every attempt of an API request or of a download meets a transient
\* condition, exactly 3 attempts are made before the error surfaces, no delay
\* follows the last attempt and the delays between attempts strictly increase.
C10_RetryBudget == (pc = "retried" /\ AllTransient) => RetryBudget

\* the conditions _handle_error_response raises that are not transient
NonTransient == {"FileNotFoundError", "PermissionError", "RateLimitError", "RuntimeError"}

\* the attempts of the call that met a condition that is not transient
NonTransientAt == { i \in 1..MAX_RETRIES : retry.outs[i] \in NonTransient }

\* the attempts of the call that were answered or met such a condition
EndingAt == { i \in 1..MAX_RETRIES : retry.outs[i] # "ConnectionError" }

\* C21: a condition that is not transient (not found, access denied, rate limit
\* exceeded, generic API error) leaves _request_with_retry at the attempt that
\* raised it: no delay follows it and no further request is made; raised by the
\* first request, it surfaces after exactly one attempt and no delay at all.
C21_NoRetryOfNonTransient ==
    (pc = "retried" /\ retry.op = "request") =>
        /\ retry.outs[1] \in NonTransient
              => /\ retry.res.status = retry.outs[1]
                 /\ retry.res.attempts = 1
                 /\ retry.res.delays = <<>>
        /\ (EndingAt # {} /\ Min(EndingAt) \in NonTransientAt)
              => /\ retry.res.status = retry.outs[Min(EndingAt)]
                 /\ retry.res.attempts = Min(EndingAt)
                 /\ Len(retry.res.delays) = Min(EndingAt) - 1

C21_Witness ==
    /\ pc = "retried"
    /\ retry.op = "request"
    /\ retry.outs = <<"PermissionError", "ok", "ok">>
    /\ retry.res = [status |-> "PermissionError", attempts |-> 1, delays |-> <<>>]

(***************************************************************************)
(* Properties of Repository.from_url.                                      *)
(***************************************************************************)
Repo(o, r, platform, base_url) ==
    [ok |-> TRUE, owner |-> o, repo |-> r, platform |-> platform, base_url |-> base_url]

\* the four spellings of the GitHub repository a/b the claim names
GitHubSpellings ==
    { <<"https://", "github.com", "/", "a", "/", "b", ".git", "/">>,
      <<"https://", "github.com", "/", "a", "/", "b">>,
      <<"gh:", "a", "/", "b">>,
      <<"a", "/", "b">> }

\* C18: the four spellings of a/b give the same identity (owner a, repo b,
\* GitHub, no base_url), and a tail of `.git` and `/` after an identifier that
\* from_url accepts does not change the identity it gives.
C18_Normalisation ==
    pc = "parsed" =>
        /\ ident.raw \in GitHubSpellings
              => ident.res = Repo(<<"a">>, <<"b">>, "github", NoBase)
        /\ from_url(ident.core).ok => ident.res = from_url(ident.core)

C18_Witness ==
    /\ pc = "parsed"
    /\ ident.raw = <<"https://", "github.com", "/", "a", "/", "b", ".git", "/">>
    /\ ident.res = Repo(<<"a">>, <<"b">>, "github", NoBase)

\* the string is a URL: it starts with a scheme
IsUrl(raw) == raw # <<>> /\ raw[1] \in {"http://", "https://"}

\* the authority of a URL
Authority(raw) == IF Len(raw) >= 2 THEN raw[2] ELSE None

\* C19 as stated: base_url is scheme and authority for a self-hosted GitLab
\* URL and unset for GitHub URLs, for the gh:, gl: and bare forms and for URLs
\* whose host is gitlab.com.
C19_BaseUrlUnsetForGitlabCom ==
    (pc = "parsed" /\ ident.res.ok) =>
        ident.res.base_url =
            IF IsUrl(ident.raw) /\ Authority(ident.raw) = "gitlab.example.com"
            THEN <<ident.raw[1], Authority(ident.raw)>>
            ELSE NoBase

\* C19 amended: base_url is scheme and authority for every URL whose host
\* contains `gitlab`, gitlab.com included, and unset for GitHub URLs and for
\* the gh:, gl: and bare forms.
C19_BaseUrl ==
    (pc = "parsed" /\ ident.res.ok) =>
        ident.res.base_url =
            IF IsUrl(ident.raw)
               /\ Authority(ident.raw) \in {"gitlab.com", "gitlab.example.com"}
            THEN <<ident.raw[1], Authority(ident.raw)>>
            ELSE NoBase

C19_Witness ==
    /\ pc = "parsed"
    /\ ident.raw = <<"https://", "gitlab.com", "/", "a", "/", "b">>
    /\ ident.res = Repo(<<"a">>, <<"b">>, "gitlab", <<"https://", "gitlab.com">>)

\* the prefixes of the accepted forms: everything but a URL of another host
AcceptedPrefixes == Prefixes \ { <<"https://", "bitbucket.org", "/">> }

\* the string is of an accepted form: an accepted prefix, then owner/repo,
\* then a tail of `.git` and `/`
InGrammar(i) == i.core \in { p \o <<"a", "/", "b">> : p \in AcceptedPrefixes }

\* C20: for every string outside the accepted forms from_url raises ValueError
\* and returns no Repository.
C20_Rejection ==
    (pc = "parsed" /\ ~InGrammar(ident)) => ~ident.res.ok

(***************************************************************************)
(* Properties of the digests.                                              *)
(***************************************************************************)
\* absent, or 64 hex characters in lower case
WellFormed(d) == d = None \/ d \in LowerHex

\* C25: the digest of a translated asset, every digest parsed from a manifest
\* and the digest _download_asset verifies against are absent or 64 lower-case
\* hex characters, whatever the `digest` value of the API.
C25_DigestWellFormed ==
    pc = "translated" =>
        /\ WellFormed(conv.digest)
        /\ \A k \in DOMAIN conv.lookup : WellFormed(conv.lookup[k])
        /\ WellFormed(conv.used)

(***************************************************************************)
(* Properties of the API client.                                           *)
(***************************************************************************)
\* the time before which the response with these headers forbids a request:
\* T + 1 for a remaining quota under the threshold and a reset time T
NotBefore(remaining, reset_time) ==
    IF remaining # NoHeader /\ remaining[1] < RATE_LIMIT_THRESHOLD /\ reset_time # NoHeader
    THEN reset_time[1] + 1
    ELSE 0

\* C11: a request that follows a response with remaining quota under 10 and a
\* reset time T is issued at T + 1 or later, and no wait follows a response
\* with remaining >= 10 or without a reset time.
C11_ProactiveBackoff ==
    pc = "client" =>
        /\ client.issued_at >= NotBefore(client.before_remaining, client.before_reset)
        /\ NotBefore(client.remaining, client.reset) = 0 => client.waited = 0

\* the last response was read by _request
Answered == pc = "client" /\ client.via = "_request" /\ client.status # 0

\* the mapping of the statuses every client shares
SharedMapping ==
    /\ (client.status = 403 /\ client.remaining = Header(0) /\ client.reset # NoHeader)
          => (client.last = "RateLimitError" /\ client.exc_reset = client.reset[1])
    /\ (client.status = 403 /\ ~(client.remaining = Header(0) /\ client.reset # NoHeader))
          => client.last = "PermissionError"
    /\ client.status = 404 => client.last = "FileNotFoundError"
    /\ client.status \in {500, 502, 503, 504} => client.last = "ConnectionError"
    /\ client.last = "ok" <=> client.status = 200

\* C26 as stated: 403 with remaining quota "0" and a reset header gives the
\* rate-limit condition carrying the reset time, any other 403 access denied,
\* 404 not found, 500/502/503/504 the transient condition, every other status
\* but 200 the generic API error, and only 200 returns data.
C26_EveryOtherStatusGeneric ==
    Answered =>
        /\ SharedMapping
        /\ client.status \notin {200, 403, 404, 500, 502, 503, 504}
              => client.last = "RuntimeError"

\* C26 amended: the same, but on a GitLab client 401 gives access denied; every
\* status that is left gives the generic API error.
C26_StatusMapping ==
    Answered =>
        /\ SharedMapping
        /\ (client.platform = "gitlab" /\ client.status = 401)
              => client.last = "PermissionError"
        /\ ( /\ client.status \notin {200, 403, 404, 500, 502, 503, 504}
             /\ ~(client.platform = "gitlab" /\ client.status = 401) )
              => client.last = "RuntimeError"

C26_Witness ==
    /\ Answered
    /\ client.platform = "gitlab"
    /\ client.status = 401
    /\ client.last = "PermissionError"
    /\ client.request_count = 2

\* C12: when every attempt of a download fails transiently, while the response
\* is opened or while the body is streamed, download_file makes 3 attempts and
\* leaves no file at the destination; an attempt that succeeds after such
\* failures leaves the whole file.
C12_RetryAndTruncate ==
    (pc = "retried" /\ retry.op = "download") =>
        /\ AllTransient => (retry.res.attempts = MAX_RETRIES /\ retry.dest = Absent)
        /\ retry.res.status # "ok" => retry.dest = Absent
        /\ (\E i \in 1..MAX_RETRIES : retry.outs[i] = "ok")
              => (retry.res.status = "ok" /\ retry.dest = Remote("u1"))

====
